---- MODULE Spec2Model ----
(***************************************************************************)
(* The leaderboard service of src/src/app.service.ts: the round pointer    *)
(* kept in the store, the ranking matrix (dimension x feature x period),   *)
(* the scheduled job populateLeaderboard with one step per await, the      *)
(* expiry sweep deleteOld and the query getLeaderboard.                    *)
(***************************************************************************)
EXTENDS Integers, Sequences, FiniteSets, TLC

(* ------------------------------ bounds --------------------------------- *)
\* rounds the source finalizes during a run
MaxRound == 2
\* invocations of populateLeaderboard that begin while another is in flight
MaxOverlaps == 2
\* period rollovers per cyclical dimension during a run
MaxKey == 1
\* store errors, network errors and crashes during a run
MaxFaults == 1
\* rounds the source finalizes beyond MaxRound while a call to it is awaited
MaxLate == 2

(* --------------------------- configuration ----------------------------- *)
\* invocations of populateLeaderboard that can be in flight at once
Ticks == 1..2

Users == {"A", "B"}

\* the epochs of the rounds of a run
Epochs == 1..(MaxRound + MaxLate)

\* ties in a sorted set are ordered by member
UserOrder == [A |-> 1, B |-> 2]

World == "world"

CyclicDims == {"best-month", "best-week", "best-day", "best-hour"}

Dimensions == {World} \cup CyclicDims

AggregateFeatures ==
    {"amount_played", "total_bet", "winnings", "bnb_won", "bnb_won_even",
     "losses", "winnings_even_money"}

ReplaceFeatures == {"winrate", "avg_bet"}

Features == AggregateFeatures \cup ReplaceFeatures

\* limitTopN of every feature, and the depth getLeaderboard asks for
TopN == 500

\* the key the pointer is stored under holds nothing
Unset == 0

\* bet amounts are decimal strings; the model writes them in units of 10^-8
AmountPerUnit == 100000000

\* Big.round(7, 0): scores of the currency metrics are in units of 10^-7
CurrencyDP == 7

\* Big.round(3, 0): winrate and avg_bet are in units of 10^-3
RatioDP == 3

\* 1 - 0.03, in percent
FeeKeepPct == 97

Sides == {"Bull", "Bear"}

RECURSIVE Pow10(_)
Pow10(n) == IF n = 0 THEN 1 ELSE 10 * Pow10(n - 1)

(* ------------------------------ source --------------------------------- *)
Bet(u, a, p) == [user |-> u, amount |-> a, position |-> p]

\* the rounds the source can finalize: the winning side and the bets; the
\* third has no amount on the Bear side, the last has two bets of one user,
\* of amounts below 10^-CurrencyDP
Outcomes ==
    { [position |-> "Bull",
       bets |-> << Bet("A", 10 * AmountPerUnit, "Bull"), Bet("B", 5 * AmountPerUnit, "Bear") >>],
      [position |-> "Bear",
       bets |-> << Bet("A", 10 * AmountPerUnit, "Bull"), Bet("B", 5 * AmountPerUnit, "Bear") >>],
      [position |-> "Bull",
       bets |-> << Bet("A", 10 * AmountPerUnit, "Bull") >>],
      [position |-> "Bull",
       bets |-> << Bet("A", 20, "Bull"), Bet("A", 10, "Bear") >>] }

RECURSIVE SumSide(_, _)
SumSide(bets, sides) ==
    IF bets = << >> THEN 0
    ELSE (IF Head(bets).position \in sides THEN Head(bets).amount ELSE 0)
         + SumSide(Tail(bets), sides)

\* the record the source answers for a finalized round
RoundRecord(id, pos, bets) ==
    [id |-> id, position |-> pos, bets |-> bets,
     totalAmount |-> SumSide(bets, Sides),
     bullAmount |-> SumSide(bets, {"Bull"}),
     bearAmount |-> SumSide(bets, {"Bear"})]

NoRound == [id |-> 0, position |-> "null", bets |-> << >>,
            totalAmount |-> 0, bullAmount |-> 0, bearAmount |-> 0]

(* ------------------------------- state --------------------------------- *)
VARIABLES
    readOnly,   \* the READ_ONLY option of this process
    booted,     \* onApplicationBootstrap has run
    ptr,        \* the store's currentRound key, Unset when absent
    matrix,     \* matrix[d][f][k]: the table of dimension d, feature f, period k
    key,        \* key[d]: the current period key of cyclical dimension d
    rounds,     \* the source: the finalized rounds, rounds[e] has epoch e
    pc,         \* pc[t]: where invocation t of populateLeaderboard stands
    cur,        \* cur[t]: currentRound of invocation t
    latest,     \* latest[t]: the epochs fetchLatestRound answered to t
    rd,         \* rd[t]: the round fetchRound answered to t
    upd,        \* upd[t][d]: the winrate/avg_bet batch invocation t built for d
    queue,      \* queue[t]: the dimensions whose batch is still to be written
    err,        \* err[t]: the error invocation t caught, "none" without one
    overlaps,   \* invocations that began while another was in flight, so far
    unhandled,  \* a promise rejected with no handler attached
    faults,     \* store errors, network errors and crashes so far
    reply,      \* the last answer of getLeaderboard
    snap,       \* snap[t]: pointer, matrix and period keys when invocation t began
    applied,    \* applied[e]: times the linear metrics of round e were applied
    derived,    \* derived[e]: dimensions holding winrate/avg_bet written for round e
    seed,       \* the first epoch persisted as the pointer by getCurrentRound
    lost,       \* rounds whose invocation was cut by a crash after its pointer write
    seenPartial \* a getLeaderboard answer was read while a round was half applied

vars == << readOnly, booted, ptr, matrix, key, rounds, pc, cur, latest, rd, upd, queue,
           err, overlaps, unhandled, faults, reply, snap, applied, derived, seed, lost,
           seenPartial >>

store == << ptr, matrix >>

source == << rounds, key >>

locals == << pc, cur, latest, rd, upd, queue, err >>

ghosts == << snap, applied, derived, seed, lost, seenPartial >>

\* the ghosts a seed leaves alone
seedless == << snap, applied, derived, lost, seenPartial >>

(* ------------------------------ tables --------------------------------- *)
EmptyTable == << >>

Score(table, u) == IF u \in DOMAIN table THEN table[u] ELSE 0

\* an aggregate update that sets the score
AggregateSets(table, u, v) ==
    [x \in DOMAIN table \cup {u} |-> IF x = u THEN v ELSE table[x]]

\* updatePolicy 'aggregate': add to the score, 0 when absent
Aggregate(table, u, v) ==
    [x \in DOMAIN table \cup {u} |->
        IF x = u THEN Score(table, u) + v ELSE table[x]]

\* updatePolicy 'replace': set the score
Replace(table, u, v) ==
    [x \in DOMAIN table \cup {u} |-> IF x = u THEN v ELSE table[x]]

UpdateTable(table, f, u, v) ==
    IF f \in ReplaceFeatures THEN Replace(table, u, v) ELSE Aggregate(table, u, v)

\* getKeyNow of a cell; a cell without a cycle has the one table
KeyNow(d) == IF d = World THEN 0 ELSE key[d]

EmptyMatrix ==
    [d \in Dimensions |-> [f \in Features |-> [k \in 0..MaxKey |-> EmptyTable]]]

\* one entry {id, values} of a batch applied to matrix m in dimensions dims
ApplyEntry(m, e, dims) ==
    [d \in Dimensions |->
        [f \in Features |->
            [k \in DOMAIN m[d][f] |->
                IF d \in dims /\ f \in DOMAIN e.values /\ k = KeyNow(d)
                THEN UpdateTable(m[d][f][k], f, e.id, e.values[f])
                ELSE m[d][f][k]]]]

\* LeaderboardMatrix.update(entries, dimensions)
RECURSIVE MatrixUpdate(_, _, _)
MatrixUpdate(m, batch, dims) ==
    IF batch = << >> THEN m
    ELSE MatrixUpdate(ApplyEntry(m, Head(batch), dims), Tail(batch), dims)

\* find(id) on the table a read of cell (d, f) resolves to
Find(m, d, f, u) == Score(m[d][f][KeyNow(d)], u)

(* ----------------------------- arithmetic ------------------------------ *)
RECURSIVE Gcd(_, _)
Gcd(a, b) == IF b = 0 THEN a ELSE Gcd(b, a % b)

Abs(x) == IF x < 0 THEN -x ELSE x

\* a * n / d toward zero, for a >= 0 and d > 0, without forming a * n
MulDivTrunc(a, n, d) ==
    LET mag == (a \div d) * Abs(n) + ((a % d) * Abs(n)) \div d
    IN  IF n < 0 THEN -mag ELSE mag

\* a * n is a multiple of d
MulDivExact(a, n, d) == ((a % d) * Abs(n)) % d = 0

\* (t * 10^n) mod s
RECURSIVE ShiftMod(_, _, _)
ShiftMod(t, s, n) == IF n = 0 THEN t % s ELSE ShiftMod((t % s) * 10, s, n - 1)

\* Big DP: the decimal places a Big division keeps
BigDP == 20

\* new Big(total).div(side): -1, 0 or 1 as the quotient kept at BigDP places
\* (Big RM = 1, half up) is below, equal to or above total / side
DivDrift(total, side) ==
    LET r == ShiftMod(total, side, BigDP)
    IN  IF r = 0 THEN 0 ELSE IF 2 * r >= side THEN 1 ELSE -1

\* the payout after the fee, the stake not taken off
PayoutGross(total, side, num, den) ==
    LET g == Gcd(total, side)
    IN  MulDivTrunc(num, FeeKeepPct * (total \div g), 100 * (side \div g) * den)

\* payout.times(x).times(1 - 0.03).minus(x).round(CurrencyDP, 0) in units of
\* 10^-CurrencyDP, where payout = new Big(total).div(side) and x is num / den of
\* such a unit: times and minus are exact, round(dp, 0) drops the further
\* digits, so the result is the exact value cut toward zero, one less in size
\* when the exact value has no further digits and payout drifted toward zero
PayoutProfit(total, side, num, den) ==
    LET g == Gcd(total, side)
        tn == total \div g
        sd == side \div g
        n == FeeKeepPct * tn - 100 * sd
        d == 100 * sd * den
        cut == MulDivTrunc(num, n, d)
        drift == DivDrift(tn, sd)
    IN  IF MulDivExact(num, n, d) /\ cut > 0 /\ drift < 0 THEN cut - 1
        ELSE IF MulDivExact(num, n, d) /\ cut < 0 /\ drift > 0 THEN cut + 1
        ELSE cut

\* new Big(bet.amount).round(CurrencyDP, 0), in units of 10^-CurrencyDP
RoundAmount(a) == a \div (AmountPerUnit \div Pow10(CurrencyDP))

\* the decimal places the scores of feature f are written in
ScoreDP(f) ==
    IF f \in {"total_bet", "bnb_won", "bnb_won_even"} THEN CurrencyDP
    ELSE IF f \in ReplaceFeatures THEN RatioDP
    ELSE 0

\* new Big(num).div(den || 1).round(RatioDP, 0) in units of 10^-RatioDP, for
\* num >= 0 in units of 10^-numDP and den >= 0 in units of 10^-denDP
Ratio(num, numDP, den, denDP) ==
    LET dn == IF den = 0 THEN 1 ELSE den
        dd == IF den = 0 THEN 0 ELSE denDP
        up == RatioDP + dd
    IN  IF up >= numDP
        THEN (num * Pow10(up - numDP)) \div dn
        ELSE num \div (dn * Pow10(numDP - up))

(* ------------------------------ batches -------------------------------- *)
\* the payout of the resolved side: bullPayout or bearPayout
WinningSideAmount(round) ==
    IF round.position = "Bull" THEN round.bullAmount ELSE round.bearAmount

\* the counts of one bet with no loss counted
LinearValuesNoLoss(bet, round) ==
    [amount_played |-> 1,
     total_bet |-> RoundAmount(bet.amount),
     winnings |-> IF bet.position = round.position THEN 1 ELSE 0,
     losses |-> 0,
     bnb_won |-> 0,
     bnb_won_even |-> 0]

\* the values of one bet in the linear-metric update
LinearValues(bet, round) ==
    LET won == bet.position = round.position
    IN  [amount_played |-> 1,
         total_bet |-> RoundAmount(bet.amount),
         winnings |-> IF won THEN 1 ELSE 0,
         losses |-> IF won THEN 0 ELSE 1,
         bnb_won |->
            IF won
            THEN PayoutProfit(round.totalAmount, WinningSideAmount(round),
                              bet.amount, AmountPerUnit \div Pow10(CurrencyDP))
            ELSE 0,
         bnb_won_even |->
            IF won
            THEN PayoutProfit(round.totalAmount, WinningSideAmount(round),
                              Pow10(CurrencyDP), 1)
            ELSE 0]

\* the batch of the linear-metric update: one entry per bet
LinearBatch(round) ==
    [i \in 1..Len(round.bets) |->
        [id |-> round.bets[i].user, values |-> LinearValues(round.bets[i], round)]]

\* the feature whose table the read of (d, f) goes to: in "world" all three
\* reads go to the winnings table
ReadFeature(d, f) == IF d = World THEN "winnings" ELSE f

\* prevDataWinnings, prevDataTotalBet, prevAmountPlayed: (...)?.score || 0
PrevScore(m, d, f, u) == Find(m, d, ReadFeature(d, f), u)

\* the values of one bet in the winrate/avg_bet update of dimension d
DerivedValues(m, d, u) ==
    LET played == PrevScore(m, d, "amount_played", u)
        playedDP == ScoreDP(ReadFeature(d, "amount_played"))
    IN  [winrate |-> Ratio(PrevScore(m, d, "winnings", u),
                           ScoreDP(ReadFeature(d, "winnings")), played, playedDP),
         avg_bet |-> Ratio(PrevScore(m, d, "total_bet", u),
                           ScoreDP(ReadFeature(d, "total_bet")), played, playedDP)]

\* the batch of the winrate/avg_bet update of dimension d: one entry per bet
DerivedBatch(m, d, round) ==
    [i \in 1..Len(round.bets) |->
        [id |-> round.bets[i].user, values |-> DerivedValues(m, d, round.bets[i].user)]]

(* ------------------------------- sweep --------------------------------- *)
\* a sweep over every feature of the matrix
SweepFeaturesAll == Features

\* deleteOld: const features
SweepFeatures == {"amount_played"}

\* a sweep of the hourly dimension alone
SweepDimsHourly == {"best-hour"}

\* deleteOld: const dimensions
SweepDims == {"best-month", "best-week", "best-day", "best-hour"}

\* getExistingKeys: the period keys of cell (d, f) that hold a table
ExistingKeys(m, d, f) == {k \in DOMAIN m[d][f] : m[d][f][k] # EmptyTable}

\* a sweep that clears every existing key, the current one too
SweepEveryKey(m, dims) ==
    [d \in Dimensions |->
        [f \in Features |->
            [k \in DOMAIN m[d][f] |->
                IF d \in dims /\ f \in SweepFeatures THEN EmptyTable ELSE m[d][f][k]]]]

\* deleteOld restricted to the dimensions in dims: clear() on every existing
\* key of the swept cells other than getKeyNow()
Sweep(m, dims) ==
    [d \in Dimensions |->
        [f \in Features |->
            [k \in DOMAIN m[d][f] |->
                IF d \in dims /\ f \in SweepFeatures
                   /\ k \in ExistingKeys(m, d, f) /\ k # KeyNow(d)
                THEN EmptyTable
                ELSE m[d][f][k]]]]

(* ------------------------------- query --------------------------------- *)
\* the member zrevrange puts first: the highest score, then the highest member
First(table) ==
    CHOOSE u \in DOMAIN table :
        \A v \in DOMAIN table :
            \/ table[u] > table[v]
            \/ table[u] = table[v] /\ UserOrder[u] >= UserOrder[v]

Without(table, u) == [x \in DOMAIN table \ {u} |-> table[x]]

\* the members of a table, high-to-low, at most n of them
RECURSIVE Ranked(_, _)
Ranked(table, n) ==
    IF table = EmptyTable \/ n = 0 THEN << >>
    ELSE << First(table) >> \o Ranked(Without(table, First(table)), n - 1)

\* entry.scores of member u: per dimension, the features that hold a score
ScoresOf(m, u) ==
    [d \in Dimensions |->
        [f \in {g \in Features : u \in DOMAIN m[d][g][KeyNow(d)]} |->
            m[d][f][KeyNow(d)][u]]]

\* getLeaderboard(dimension, feature): leaderboard.top(dimension, feature, 500)
\* mapped to {address, scores}
GetLeaderboard(m, d, f) ==
    LET ids == Ranked(m[d][f][KeyNow(d)], TopN)
    IN  [i \in 1..Len(ids) |-> [address |-> ids[i], scores |-> ScoresOf(m, ids[i])]]

\* the cells the queries of a run ask for
QueryCells == { << World, "amount_played" >>, << "best-hour", "winrate" >> }

(* ------------------------------ source --------------------------------- *)
\* fetchLatestRound: first
LatestFirst == 10

\* fetchLatestRound: the finalized epochs, descending, the first LatestFirst
LatestRounds ==
    LET n == IF Len(rounds) < LatestFirst THEN Len(rounds) ELSE LatestFirst
    IN  [i \in 1..n |-> Len(rounds) - i + 1]

\* fetchRound(e): the round's winning side is resolved once it is finalized
Resolved(e) == e \in 1..Len(rounds)

(* ---------------------------- the process ------------------------------ *)
\* an option that is never read
isReadOnlyNever == FALSE

\* isReadOnly()
isReadOnly == readOnly

\* a pointer written two rounds on
NextPointerSkips(c) == c + 2

\* a pointer written back as read
NextPointerStays(c) == c

\* setCurrentRound(currentRound + 1)
NextPointer(c) == c + 1

\* the most recent round as the seed
SeedEntryFirst(lst) == lst[1]

\* lastRounds.data.rounds[1], counting from 1
SeedEntry(lst) == lst[2]

Idle(t) == pc[t] \in {"idle", "done"} /\ queue[t] = << >>

\* no invocation of populateLeaderboard is in flight
NoTickRunning == \A t \in Ticks : Idle(t)

\* an invocation takes the first free slot
FreeSlot(t) == Idle(t) /\ \A o \in Ticks : o < t => ~Idle(o)

NoUpdates == [d \in Dimensions |-> << >>]

NoSnap == [ptr |-> Unset, matrix |-> << >>, key |-> << >>]

\* a process that has just started has no invocation in flight
NoLocals ==
    /\ pc = [t \in Ticks |-> "idle"]
    /\ cur = [t \in Ticks |-> Unset]
    /\ latest = [t \in Ticks |-> << >>]
    /\ rd = [t \in Ticks |-> NoRound]
    /\ upd = [t \in Ticks |-> NoUpdates]
    /\ queue = [t \in Ticks |-> << >>]
    /\ err = [t \in Ticks |-> "none"]
    /\ snap = [t \in Ticks |-> NoSnap]

Init ==
    /\ readOnly \in BOOLEAN
    /\ booted = FALSE
    /\ ptr = Unset
    /\ matrix = EmptyMatrix
    /\ key = [d \in CyclicDims |-> 0]
    /\ rounds = << >>
    /\ NoLocals
    /\ overlaps = 0
    /\ unhandled = FALSE
    /\ faults = 0
    /\ reply = << >>
    /\ applied = [e \in Epochs |-> 0]
    /\ derived = [e \in Epochs |-> {}]
    /\ seed = Unset
    /\ lost = {}
    /\ seenPartial = FALSE

\* populateLeaderboard is entered: isReadOnly() returns at once
BeginTick(t) ==
    /\ FreeSlot(t)
    /\ NoTickRunning \/ overlaps < MaxOverlaps
    /\ overlaps' = IF NoTickRunning THEN overlaps ELSE overlaps + 1
    /\ pc' = [pc EXCEPT ![t] = IF isReadOnly THEN "done" ELSE "sweep"]
    /\ cur' = [cur EXCEPT ![t] = Unset]
    /\ latest' = [latest EXCEPT ![t] = << >>]
    /\ rd' = [rd EXCEPT ![t] = NoRound]
    /\ err' = [err EXCEPT ![t] = "none"]
    /\ snap' = [snap EXCEPT ![t] = [ptr |-> ptr, matrix |-> matrix, key |-> key]]
    /\ UNCHANGED << faults, readOnly, store, source, upd, queue, unhandled, reply,
                    applied, derived, seed, lost, seenPartial >>

\* onApplicationBootstrap: !this.isReadOnly() && this.populateLeaderboard()
Bootstrap ==
    /\ ~booted
    /\ booted' = TRUE
    /\ IF isReadOnly
       THEN UNCHANGED << faults, readOnly, store, source, locals, overlaps, unhandled,
                         reply, ghosts >>
       ELSE \E t \in Ticks : BeginTick(t)

\* @Cron(EVERY_10_SECONDS), whatever earlier invocations are doing
CronTick(t) ==
    /\ booted
    /\ BeginTick(t)
    /\ UNCHANGED booted

\* @Cron(EVERY_10_SECONDS) when every invocation ends within the interval
CronTickAlone(t) ==
    /\ NoTickRunning
    /\ CronTick(t)

\* a call to the store or to the source fails, or the process dies
Fault ==
    /\ faults < MaxFaults
    /\ faults' = faults + 1

\* catch (e): the invocation ends with the error logged
Caught(t, e) ==
    /\ pc' = [pc EXCEPT ![t] = "done"]
    /\ err' = [err EXCEPT ![t] = e]

\* await this.deleteOld()
SweepOld(t) ==
    /\ pc[t] = "sweep"
    /\ matrix' = Sweep(matrix, SweepDims)
    /\ pc' = [pc EXCEPT ![t] = "getptr"]
    /\ UNCHANGED << faults, readOnly, booted, ptr, source, cur, latest, rd, upd, queue, err,
                    overlaps, unhandled, reply, ghosts >>

\* deleteOld rejects: a store call of the dimensions in failed rejected, the
\* other dimensions are swept all the same
SweepFails(t) ==
    /\ pc[t] = "sweep"
    /\ \E failed \in SUBSET SweepDims \ {{}} :
          matrix' = Sweep(matrix, SweepDims \ failed)
    /\ Caught(t, "deleteOld")
    /\ Fault
    /\ UNCHANGED << readOnly, booted, ptr, source, cur, latest, rd, upd, queue,
                    overlaps, unhandled, reply, ghosts >>

\* getCurrentRound: the key holds a value
GetPointer(t) ==
    /\ pc[t] = "getptr"
    /\ ptr # Unset
    /\ cur' = [cur EXCEPT ![t] = ptr]
    /\ pc' = [pc EXCEPT ![t] = "fetch"]
    /\ UNCHANGED << faults, readOnly, booted, store, source, latest, rd, upd, queue, err,
                    overlaps, unhandled, reply, ghosts >>

\* an absent pointer taken to be the first round, with no question to the source
GetPointerAbsentDefault(t) ==
    /\ pc[t] = "getptr"
    /\ ptr = Unset
    /\ ptr' = 1
    /\ cur' = [cur EXCEPT ![t] = 1]
    /\ pc' = [pc EXCEPT ![t] = "fetch"]
    /\ UNCHANGED << faults, readOnly, booted, matrix, source, latest, rd, upd, queue, err,
                    overlaps, unhandled, reply, ghosts >>

\* getCurrentRound: the key holds nothing, fetchLatestRound is awaited
GetPointerAbsent(t) ==
    /\ pc[t] = "getptr"
    /\ ptr = Unset
    /\ pc' = [pc EXCEPT ![t] = "latest"]
    /\ UNCHANGED << faults, readOnly, booted, store, source, cur, latest, rd, upd, queue, err,
                    overlaps, unhandled, reply, ghosts >>

\* getCurrentRound: client.get rejects
GetPointerFails(t) ==
    /\ pc[t] = "getptr"
    /\ Caught(t, "get")
    /\ Fault
    /\ UNCHANGED << readOnly, booted, store, source, cur, latest, rd, upd, queue,
                    overlaps, unhandled, reply, ghosts >>

\* getCurrentRound: more than one finalized round, the second is persisted
SeedPointer(t) ==
    /\ pc[t] = "latest"
    /\ Len(LatestRounds) > 1
    /\ latest' = [latest EXCEPT ![t] = LatestRounds]
    /\ ptr' = SeedEntry(LatestRounds)
    /\ cur' = [cur EXCEPT ![t] = SeedEntry(LatestRounds)]
    /\ seed' = IF seed = Unset THEN SeedEntry(LatestRounds) ELSE seed
    /\ pc' = [pc EXCEPT ![t] = "fetch"]
    /\ UNCHANGED << faults, readOnly, booted, matrix, source, rd, upd, queue, err,
                    overlaps, unhandled, reply, seedless >>

\* getCurrentRound: setCurrentRound(round.epoch) rejects
SeedFails(t) ==
    /\ pc[t] = "latest"
    /\ Len(LatestRounds) > 1
    /\ latest' = [latest EXCEPT ![t] = LatestRounds]
    /\ Caught(t, "set")
    /\ Fault
    /\ UNCHANGED << readOnly, booted, store, source, cur, rd, upd, queue,
                    overlaps, unhandled, reply, ghosts >>

\* getCurrentRound: throw new Error('No rounds found') on a list of at most
\* one round
NoRoundsFound(t) ==
    /\ pc[t] = "latest"
    /\ Len(LatestRounds) <= 1
    /\ latest' = [latest EXCEPT ![t] = LatestRounds]
    /\ Caught(t, "No rounds found")
    /\ UNCHANGED << faults, readOnly, booted, store, source, cur, rd, upd, queue,
                    overlaps, unhandled, reply, ghosts >>

\* getCurrentRound: throw new Error('No rounds found') on an answer without
\* data, which is what a failed request resolves to
LatestFails(t) ==
    /\ pc[t] = "latest"
    /\ latest' = [latest EXCEPT ![t] = << >>]
    /\ Caught(t, "No rounds found")
    /\ Fault
    /\ UNCHANGED << readOnly, booted, store, source, cur, rd, upd, queue,
                    overlaps, unhandled, reply, ghosts >>

\* throw new Error('No round data available yet')
FetchFails(t) ==
    /\ pc[t] = "fetch"
    /\ Caught(t, "No round data available yet")
    /\ Fault
    /\ UNCHANGED << readOnly, booted, store, source, cur, latest, rd, upd, queue,
                    overlaps, unhandled, reply, ghosts >>

\* throw new Error('Round not ready to fetch')
RoundNotReady(t) ==
    /\ pc[t] = "fetch"
    /\ ~Resolved(cur[t])
    /\ Caught(t, "Round not ready to fetch")
    /\ UNCHANGED << faults, readOnly, booted, store, source, cur, latest, rd, upd, queue,
                    overlaps, unhandled, reply, ghosts >>

\* new Big(round.totalAmount).div(...) throws on a side without amount
PayoutFails(t) ==
    /\ pc[t] = "fetch"
    /\ Resolved(cur[t])
    /\ rounds[cur[t]].bullAmount = 0 \/ rounds[cur[t]].bearAmount = 0
    /\ rd' = [rd EXCEPT ![t] = rounds[cur[t]]]
    /\ Caught(t, "Division by zero")
    /\ UNCHANGED << faults, readOnly, booted, store, source, cur, latest, upd, queue,
                    overlaps, unhandled, reply, ghosts >>

\* await this.setCurrentRound(currentRound + 1)
AdvancePointer(t) ==
    /\ pc[t] = "fetch"
    /\ Resolved(cur[t])
    /\ rounds[cur[t]].bullAmount # 0 /\ rounds[cur[t]].bearAmount # 0
    /\ rd' = [rd EXCEPT ![t] = rounds[cur[t]]]
    /\ ptr' = NextPointer(cur[t])
    /\ pc' = [pc EXCEPT ![t] = "linear"]
    /\ UNCHANGED << faults, readOnly, booted, matrix, source, cur, latest, upd, queue, err,
                    overlaps, unhandled, reply, ghosts >>

\* setCurrentRound(currentRound + 1) rejects
AdvanceFails(t) ==
    /\ pc[t] = "fetch"
    /\ Resolved(cur[t])
    /\ rounds[cur[t]].bullAmount # 0 /\ rounds[cur[t]].bearAmount # 0
    /\ rd' = [rd EXCEPT ![t] = rounds[cur[t]]]
    /\ Caught(t, "set")
    /\ Fault
    /\ UNCHANGED << readOnly, booted, store, source, cur, latest, upd, queue,
                    overlaps, unhandled, reply, ghosts >>

\* the dimensions of the linear-metric update: update is given no dimension
\* list, which stands for all of them
LinearDims == Dimensions

\* await this.leaderboard.update(round.bets.map(...))
UpdateLinear(t) ==
    /\ pc[t] = "linear"
    /\ matrix' = MatrixUpdate(matrix, LinearBatch(rd[t]), LinearDims)
    /\ applied' = [applied EXCEPT ![cur[t]] = @ + 1]
    /\ pc' = [pc EXCEPT ![t] = "reads"]
    /\ UNCHANGED << faults, readOnly, booted, ptr, source, cur, latest, rd, upd, queue, err,
                    overlaps, unhandled, reply, snap, derived, seed, lost, seenPartial >>

\* the linear-metric update rejects
UpdateLinearFails(t) ==
    /\ pc[t] = "linear"
    /\ Caught(t, "update")
    /\ Fault
    /\ UNCHANGED << readOnly, booted, store, source, cur, latest, rd, upd, queue,
                    overlaps, unhandled, reply, ghosts >>

\* this.leaderboard.options.dimensions, in the order the matrix declares them:
\* the callbacks share one connection, whose answers come back in the order
\* asked, so their updates are sent in this order
DimOrder == << "world", "best-month", "best-week", "best-day", "best-hour" >>

RECURSIVE Except(_, _)
Except(seq, out) ==
    IF seq = << >> THEN << >>
    ELSE IF Head(seq) \in out THEN Except(Tail(seq), out)
    ELSE << Head(seq) >> \o Except(Tail(seq), out)

\* the callback of every dimension reads the scores of every bet's user
ReadScores(t) ==
    /\ pc[t] = "reads"
    /\ upd' = [upd EXCEPT ![t] = [d \in Dimensions |-> DerivedBatch(matrix, d, rd[t])]]
    /\ queue' = [queue EXCEPT ![t] = DimOrder]
    /\ pc' = [pc EXCEPT ![t] = "derived"]
    /\ UNCHANGED << faults, readOnly, booted, store, source, cur, latest, rd, err,
                    overlaps, unhandled, reply, ghosts >>

\* a read rejects in one dimension or in all: Promise.all rejects and the
\* invocation ends, the callbacks of the other dimensions run on
ReadScoresFails(t) ==
    /\ pc[t] = "reads"
    /\ \E failed \in {{d} : d \in Dimensions} \cup {Dimensions} :
          queue' = [queue EXCEPT ![t] = Except(DimOrder, failed)]
    /\ upd' = [upd EXCEPT ![t] = [d \in Dimensions |-> DerivedBatch(matrix, d, rd[t])]]
    /\ Caught(t, "find")
    /\ Fault
    /\ UNCHANGED << readOnly, booted, store, source, cur, latest, rd,
                    overlaps, unhandled, reply, ghosts >>

\* the invocation ends when the callback of every dimension has returned
AfterCallback(t) ==
    IF pc[t] = "derived" /\ Len(queue[t]) = 1 THEN "done" ELSE pc[t]

\* this.leaderboard.update(updates, [dimension.name]), not awaited
UpdateDerived(t) ==
    /\ queue[t] # << >>
    /\ LET d == Head(queue[t])
       IN  /\ matrix' = MatrixUpdate(matrix, upd[t][d], {d})
           /\ derived' = [derived EXCEPT ![cur[t]] = @ \cup {d}]
    /\ queue' = [queue EXCEPT ![t] = Tail(@)]
    /\ pc' = [pc EXCEPT ![t] = AfterCallback(t)]
    /\ UNCHANGED << faults, readOnly, booted, ptr, source, cur, latest, rd, upd, err,
                    overlaps, unhandled, reply, snap, applied, seed, lost, seenPartial >>

\* the update of a dimension rejects: nothing awaits it and nothing catches it
UpdateDerivedFails(t) ==
    /\ queue[t] # << >>
    /\ unhandled' = TRUE
    /\ queue' = [queue EXCEPT ![t] = Tail(@)]
    /\ pc' = [pc EXCEPT ![t] = AfterCallback(t)]
    /\ Fault
    /\ UNCHANGED << readOnly, booted, store, source, cur, latest, rd, upd, err,
                    overlaps, reply, ghosts >>

\* a round whose pointer write happened and whose updates have not all landed
MidRound(t) == pc[t] \in {"linear", "reads", "derived"} \/ queue[t] # << >>

\* the process dies and is started again, with the option it is then given;
\* the store keeps what it holds, an answer on its way is lost
Crash ==
    /\ booted
    /\ Fault
    /\ booted' = FALSE
    /\ readOnly' \in BOOLEAN
    /\ pc' = [t \in Ticks |-> "idle"]
    /\ cur' = [t \in Ticks |-> Unset]
    /\ latest' = [t \in Ticks |-> << >>]
    /\ rd' = [t \in Ticks |-> NoRound]
    /\ upd' = [t \in Ticks |-> NoUpdates]
    /\ queue' = [t \in Ticks |-> << >>]
    /\ err' = [t \in Ticks |-> "none"]
    /\ snap' = [t \in Ticks |-> NoSnap]
    /\ lost' = lost \cup {cur[t] : t \in {x \in Ticks : MidRound(x)}}
    /\ reply' = << >>
    /\ UNCHANGED << store, source, overlaps, unhandled, applied, derived, seed,
                    seenPartial >>

(* --------------------------- the environment --------------------------- *)
\* the source finalizes the next round
EndRound ==
    /\ Len(rounds) < MaxRound
    /\ \E o \in Outcomes :
          rounds' = Append(rounds, RoundRecord(Len(rounds) + 1, o.position, o.bets))
    /\ UNCHANGED << faults, readOnly, booted, store, key, locals, overlaps, unhandled,
                    reply, ghosts >>

\* the cycles that turn at one instant: an hour alone at the least, and at
\* the most an hour, a day, a week and a month together
Turns ==
    { {"best-hour"},
      {"best-hour", "best-day", "best-week", "best-month"} }

\* the round of the first outcome
PlainOutcome ==
    [position |-> "Bull",
     bets |-> << Bet("A", 10 * AmountPerUnit, "Bull"), Bet("B", 5 * AmountPerUnit, "Bear") >>]

\* the source finalizes the next round, during the run and while a call to it
\* is awaited, each round with the same bets
EndRoundPlain ==
    /\ Len(rounds) < MaxRound + MaxLate
    /\ rounds' = Append(rounds, RoundRecord(Len(rounds) + 1, PlainOutcome.position,
                                            PlainOutcome.bets))
    /\ UNCHANGED << faults, readOnly, booted, store, key, locals, overlaps, unhandled,
                    reply, ghosts >>

\* the clock passes a period boundary
Rollover ==
    /\ \E turn \in Turns :
          /\ \A d \in turn : key[d] < MaxKey
          /\ key' = [d \in CyclicDims |-> IF d \in turn THEN key[d] + 1 ELSE key[d]]
    /\ UNCHANGED << faults, readOnly, booted, store, rounds, locals, overlaps, unhandled,
                    reply, ghosts >>

\* a round whose linear metrics are applied and whose winrate/avg_bet are not
\* written in every dimension
PartialRound == \E e \in Epochs : applied[e] > 0 /\ derived[e] # Dimensions

\* GET /leaderboard?dimension=d&feature=f
Query ==
    /\ booted
    /\ \E cell \in QueryCells :
          reply' = GetLeaderboard(matrix, cell[1], cell[2])
    /\ seenPartial' = (seenPartial \/ PartialRound)
    /\ UNCHANGED << faults, readOnly, booted, store, source, locals, overlaps, unhandled,
                    snap, applied, derived, seed, lost >>

(* --------------------------- specifications ---------------------------- *)
\* the steps of an invocation whose calls to the store and the source succeed
Proceeds(t) ==
    \/ SweepOld(t)
    \/ GetPointer(t) \/ GetPointerAbsent(t)
    \/ SeedPointer(t) \/ NoRoundsFound(t)
    \/ RoundNotReady(t) \/ PayoutFails(t)
    \/ AdvancePointer(t)
    \/ UpdateLinear(t)
    \/ ReadScores(t)
    \/ UpdateDerived(t)

\* the steps of an invocation in which a call to the store or the source fails
Fails(t) ==
    \/ SweepFails(t)
    \/ GetPointerFails(t)
    \/ SeedFails(t) \/ LatestFails(t)
    \/ FetchFails(t)
    \/ AdvanceFails(t)
    \/ UpdateLinearFails(t)
    \/ ReadScoresFails(t)
    \/ UpdateDerivedFails(t)

\* every invocation ends before the next begins; calls fail, the process
\* crashes, periods roll over
Next ==
    \/ Bootstrap
    \/ \E t \in Ticks : CronTickAlone(t)
    \/ \E t \in Ticks : Proceeds(t)
    \/ \E t \in Ticks : Fails(t)
    \/ Crash
    \/ EndRound
    \/ Rollover

Spec == Init /\ [][Next]_vars

\* invocations overlap; no call fails and the process does not crash
NextOverlap ==
    \/ Bootstrap
    \/ \E t \in Ticks : CronTick(t)
    \/ \E t \in Ticks : Proceeds(t)
    \/ EndRound

SpecOverlap == Init /\ [][NextOverlap]_vars

\* queries arrive between the steps of an invocation; the process restarts
NextQuery ==
    \/ Bootstrap
    \/ \E t \in Ticks : CronTickAlone(t)
    \/ \E t \in Ticks : Proceeds(t)
    \/ Crash
    \/ EndRound
    \/ Query

SpecQuery == Init /\ [][NextQuery]_vars

\* the scheduler fires forever and every call to the store and to the source
\* is answered: no invocation overlaps another, none fails, no crash
NextLive ==
    \/ Bootstrap
    \/ \E t \in Ticks : CronTickAlone(t)
    \/ \E t \in Ticks : Proceeds(t)
    \/ EndRound

\* the application boots, the cron job keeps firing, an awaited call returns
SpecLive ==
    /\ Init
    /\ [][NextLive]_vars
    /\ WF_vars(Bootstrap)
    /\ WF_vars(\E t \in Ticks : CronTickAlone(t))
    /\ WF_vars(\E t \in Ticks : Proceeds(t))

\* the steps of an invocation whose calls succeed, over rounds that have an
\* amount on both sides
Settles(t) ==
    \/ SweepOld(t)
    \/ GetPointer(t) \/ GetPointerAbsent(t)
    \/ SeedPointer(t) \/ NoRoundsFound(t)
    \/ RoundNotReady(t)
    \/ AdvancePointer(t)
    \/ UpdateLinear(t)
    \/ ReadScores(t)
    \/ UpdateDerived(t)

\* invocations overlap and the source goes on finalizing rounds while they
\* await it; no call fails and the process does not crash
NextSeed ==
    \/ Bootstrap
    \/ \E t \in Ticks : CronTick(t)
    \/ \E t \in Ticks : Settles(t)
    \/ EndRoundPlain

SpecSeed == Init /\ [][NextSeed]_vars

(* ------------------------------- claims -------------------------------- *)
\* invocation t has ended
Ended(t) == pc[t] = "done"

\* C1: an invocation that read pointer P and was answered round P with its
\* winning side resolved leaves P + 1 persisted when it ends, whatever fails
\* after the pointer write (the pointer write itself being answered)
OptimisticAdvance ==
    \A t \in Ticks :
        Ended(t) /\ rd[t] # NoRound /\ err[t] # "set" => ptr = cur[t] + 1

\* C2 as stated: an invocation that ends on 'Round not ready to fetch' leaves
\* the pointer and every table of the matrix as they were when it began
NotReadyChangesNothing ==
    \A t \in Ticks :
        Ended(t) /\ err[t] = "Round not ready to fetch"
            => ptr = snap[t].ptr /\ matrix = snap[t].matrix

\* C2 as amended: an invocation that ends on 'Round not ready to fetch' leaves
\* the pointer as it was when it began, and every table as it was except the
\* amount_played tables of expired periods, which its sweep may have emptied
NotReadySweepsOnly ==
    \A t \in Ticks :
        Ended(t) /\ err[t] = "Round not ready to fetch"
            => /\ ptr = snap[t].ptr
               /\ \A d \in Dimensions, f \in Features, k \in 0..MaxKey :
                     \/ matrix[d][f][k] = snap[t].matrix[d][f][k]
                     \/ /\ d \in CyclicDims
                        /\ f = "amount_played"
                        /\ k # KeyNow(d)
                        /\ matrix[d][f][k] = EmptyTable

\* C2 witness: a not-ready invocation has ended and its sweep emptied a table
NotReadySwept ==
    \E t \in Ticks :
        /\ Ended(t)
        /\ err[t] = "Round not ready to fetch"
        /\ matrix # snap[t].matrix

\* C3: the linear metrics of a round are applied to the matrix at most once,
\* also when invocations overlap
AppliedAtMostOnce == \A e \in 1..MaxRound : applied[e] <= 1

\* C4: with invocations that do not overlap, a round whose invocation was cut
\* by a crash after its pointer write is never fetched by a later invocation
\* and its metrics are never applied a second time
NoReplayAfterCrash ==
    /\ \A t \in Ticks : cur[t] \notin lost
    /\ \A e \in lost : applied[e] <= 1

\* C4 witness: round e was cut by a crash before its update landed, and a
\* later invocation has gone on to round e + 1
SkippedAfterCrash ==
    \E e \in lost, t \in Ticks :
        applied[e] = 0 /\ cur[t] = e + 1 /\ pc[t] = "reads"

\* C5: once persisted, the pointer never decreases
PointerMonotone == [][ptr # Unset => ptr' >= ptr]_vars

\* C6: no error of a step of an invocation escapes populateLeaderboard
NoErrorEscapes == ~unhandled

NoScoreAdded(m0, m) ==
    \A d \in Dimensions, f \in Features, k \in 0..MaxKey :
        m[d][f][k] = m0[d][f][k] \/ m[d][f][k] = EmptyTable

\* C8: an invocation that finds no pointer and is answered no finalized round
\* ends with the pointer unset and no score added to any table, and an
\* invocation that finds no pointer asks the source for the latest rounds
BootstrapFailure ==
    /\ [](\A t \in Ticks :
             Ended(t) /\ err[t] = "No rounds found" /\ latest[t] = << >>
                => ptr = Unset /\ NoScoreAdded(snap[t].matrix, matrix))
    /\ [][\A t \in Ticks :
             pc[t] = "getptr" /\ ptr = Unset /\ pc'[t] \notin {"getptr", "idle", "done"}
                => pc'[t] = "latest" /\ ptr' = Unset]_vars

\* C8 witness: with no pointer and no finalized round at the source, an
\* invocation has ended on 'No rounds found'
BootstrapFailed ==
    \E t \in Ticks :
        /\ Ended(t)
        /\ err[t] = "No rounds found"
        /\ rounds = << >>
        /\ snap[t].ptr = Unset
        /\ ptr = Unset

\* C9: while the read-only option is set no step changes the pointer or a
\* table, and a booted process answers queries
ReadOnlyFrame ==
    /\ [][readOnly => ptr' = ptr /\ matrix' = matrix]_vars
    /\ [](readOnly /\ booted => ENABLED Query)

\* C9 witness: a read-only process over a store that holds rounds has run an
\* invocation and answered a query
ReadOnlyAnswered ==
    /\ readOnly
    /\ ptr # Unset
    /\ reply # << >>
    /\ \E t \in Ticks : Ended(t)

\* C10: no query reads the matrix while a round is applied in part: every
\* answer is computed from tables in which each round is applied as a whole
\* (linear metrics and that invocation's winrate/avg_bet) or not at all
QueryNeverPartial == ~seenPartial

\* the sweep of invocation t has completed in this step
SweepDone(t) == pc[t] = "sweep" /\ pc'[t] = "getptr"

\* C11 as stated: when the sweep of an invocation completes, no table of a
\* cyclical dimension other than that of the current period holds an entry,
\* whatever the feature
SweepLeavesNoExpired ==
    [][\A t \in Ticks :
          SweepDone(t)
             => \A d \in CyclicDims, f \in Features, k \in 0..MaxKey :
                   k # KeyNow(d) => matrix'[d][f][k] = EmptyTable]_vars

\* C11 as amended: when the sweep of an invocation completes, no amount_played
\* table of a cyclical dimension other than that of the current period holds
\* an entry
SweepLeavesNoExpiredPlayed ==
    [][\A t \in Ticks :
          SweepDone(t)
             => \A d \in CyclicDims, k \in 0..MaxKey :
                   k # KeyNow(d) => matrix'[d]["amount_played"][k] = EmptyTable]_vars

\* C11 witness: a sweep has emptied the amount_played table of an expired
\* period and left the winnings table of that period as it was
ExpiredPlayedSwept ==
    \E t \in Ticks, d \in CyclicDims, k \in 0..MaxKey :
        /\ pc[t] = "getptr"
        /\ k # KeyNow(d)
        /\ snap[t].matrix[d]["amount_played"][k] # EmptyTable
        /\ matrix[d]["amount_played"][k] = EmptyTable
        /\ matrix[d]["winnings"][k] # EmptyTable

\* C15: the sweep of an invocation, completed or failed, changes no table of
\* "world", no current-period table of a cyclical dimension, and not the
\* pointer
SweepFrame ==
    [][\A t \in Ticks :
          pc[t] = "sweep" /\ pc'[t] \in {"getptr", "done"}
             => /\ matrix'[World] = matrix[World]
                /\ \A d \in CyclicDims, f \in Features :
                      matrix'[d][f][KeyNow(d)] = matrix[d][f][KeyNow(d)]
                /\ ptr' = ptr]_vars

\* C15 witness: a sweep has emptied a table while the pointer is set and
\* "world" and the current period of every cyclical dimension hold scores
SweptBesideScores ==
    \E t \in Ticks :
        /\ pc[t] = "getptr"
        /\ matrix # snap[t].matrix
        /\ ptr # Unset
        /\ matrix[World]["amount_played"][0] # EmptyTable
        /\ \A d \in CyclicDims : matrix[d]["amount_played"][KeyNow(d)] # EmptyTable

\* the number of bets of user u on one of sides
RECURSIVE CountBets(_, _, _)
CountBets(bets, u, sides) ==
    IF bets = << >> THEN 0
    ELSE (IF Head(bets).user = u /\ Head(bets).position \in sides THEN 1 ELSE 0)
         + CountBets(Tail(bets), u, sides)

\* invocation t has ended without an error, having applied a round, and no
\* period has rolled over since it began
Completed(t) ==
    Ended(t) /\ err[t] = "none" /\ rd[t] # NoRound /\ snap[t].key = key

\* the score of u in the current table of (d, f) when invocation t began
Before(t, d, f, u) == Score(snap[t].matrix[d][f][KeyNow(d)], u)

RatiosOf(m, d, u) ==
    LET played == Find(m, d, "amount_played", u)
    IN  [winrate |-> Ratio(Find(m, d, "winnings", u), 0, played, 0),
         avg_bet |-> Ratio(Find(m, d, "total_bet", u), CurrencyDP, played, 0)]

\* invocation t has read the scores and built its winrate/avg_bet batches in
\* this step
ReadsDone(t) == pc[t] = "reads" /\ pc'[t] = "derived"

\* C13: in every dimension, "world" included, the winrate and avg_bet built
\* for a user with a bet are the ratios of the winnings and total_bet scores
\* to max(amount_played score, 1), each read from that dimension
DerivedFromOwnScores ==
    [][\A t \in Ticks :
          ReadsDone(t)
             => \A d \in Dimensions, i \in 1..Len(rd[t].bets) :
                   upd'[t][d][i].values = RatiosOf(matrix, d, rd[t].bets[i].user)]_vars

\* C14: the winrate and avg_bet an invocation builds for a dimension are
\* computed from the scores the dimension held before the invocation's
\* linear-metric update (no period having rolled over since it began)
DerivedFromPreRound ==
    [][\A t \in Ticks :
          ReadsDone(t) /\ snap[t].key = key
             => \A d \in Dimensions, i \in 1..Len(rd[t].bets) :
                   upd'[t][d][i].values
                      = RatiosOf(snap[t].matrix, d, rd[t].bets[i].user)]_vars

\* (totalAmount / amountOnWinningSide) * amount * (1 - 0.03) - amount of a
\* winning bet as the fraction << p, q >> of 10^-CurrencyDP, q > 0, in lowest
\* terms
ExactProfit(bet, round) ==
    LET g == Gcd(round.totalAmount, WinningSideAmount(round))
        total == round.totalAmount \div g
        side == WinningSideAmount(round) \div g
        n == FeeKeepPct * total - 100 * side
        d == 100 * side * (AmountPerUnit \div Pow10(CurrencyDP))
        g1 == Gcd(bet.amount, d)
        g2 == Gcd(Abs(n), d \div g1)
    IN  << (bet.amount \div g1) * (n \div g2), (d \div g1) \div g2 >>

Sign(x) == IF x < 0 THEN -1 ELSE 1

\* the fraction pq rounded to an integer, half away from zero
HalfAway(pq) == Sign(pq[1]) * ((2 * Abs(pq[1]) + pq[2]) \div (2 * pq[2]))

\* the fraction pq cut to an integer toward zero
TowardZero(pq) == Sign(pq[1]) * (Abs(pq[1]) \div pq[2])

\* the fraction pq cut toward zero after the quotient total / side, kept to
\* BigDP places, has entered it: a value the exact quotient makes an integer
\* falls one short of it when the kept quotient is the smaller one
CutWithDrift(pq, round) ==
    LET g == Gcd(round.totalAmount, WinningSideAmount(round))
        drift == DivDrift(round.totalAmount \div g, WinningSideAmount(round) \div g)
    IN  IF pq[1] % pq[2] = 0 /\ pq[1] # 0 /\ drift = -Sign(pq[1])
        THEN pq[1] \div pq[2] - Sign(pq[1])
        ELSE TowardZero(pq)

\* the sum of what the bets of user u add to bnb_won, each winning bet's
\* profit taken half away from zero (away) or cut toward zero
RECURSIVE SumProfit(_, _, _, _)
SumProfit(bets, u, round, away) ==
    IF bets = << >> THEN 0
    ELSE (IF Head(bets).user = u /\ Head(bets).position = round.position
          THEN (IF away THEN HalfAway(ExactProfit(Head(bets), round))
                ELSE CutWithDrift(ExactProfit(Head(bets), round), round))
          ELSE 0)
         + SumProfit(Tail(bets), u, round, away)

\* what the step has added to the bnb_won of u in "world"
AddedBnbWon(u) == Find(matrix', World, "bnb_won", u) - Find(matrix, World, "bnb_won", u)

\* C16 as stated: the linear update adds to bnb_won 0 for a losing bet and for
\* a winning bet its profit rounded to 7 places half away from zero
BnbWonHalfAway ==
    [][\A t \in Ticks :
          pc[t] = "linear" /\ pc'[t] = "reads"
             => \A u \in Users : AddedBnbWon(u) = SumProfit(rd[t].bets, u, rd[t], TRUE)]_vars

\* C16 as amended: the linear update adds to bnb_won 0 for a losing bet and
\* for a winning bet its profit cut to 7 places toward zero, the quotient
\* totalAmount / amountOnWinningSide being kept to 20 places
BnbWonTowardZero ==
    [][\A t \in Ticks :
          pc[t] = "linear" /\ pc'[t] = "reads"
             => \A u \in Users : AddedBnbWon(u) = SumProfit(rd[t].bets, u, rd[t], FALSE)]_vars

\* C16 witness: the round [{A,10,Bull},{B,5,Bear}] resolved Bull has added
\* 4.55 to A and 0 to B, and a round in which A won 0.000000091 has added 0
BnbWonAdded ==
    /\ Len(rounds) = 2
    /\ rounds[1].bets = << Bet("A", 10 * AmountPerUnit, "Bull"), Bet("B", 5 * AmountPerUnit, "Bear") >>
    /\ rounds[1].position = "Bull"
    /\ rounds[2].totalAmount = 30
    /\ applied[1] = 1 /\ applied[2] = 1
    /\ Find(matrix, World, "bnb_won", "A") = 45500000
    /\ Find(matrix, World, "bnb_won", "B") = 0
    /\ "B" \in DOMAIN matrix[World]["bnb_won"][0]

\* C18: with invocations that do not overlap, a step changes the pointer
\* either from unset to the seed or by exactly 1, an invocation that found
\* the pointer set leaves it unchanged or one higher when it ends, and the
\* round an invocation fetches is the one the pointer named
PointerStepsByOne ==
    /\ [][ptr' # ptr
             => \/ ptr = Unset /\ \E t \in Ticks : ptr' = cur'[t] /\ pc'[t] = "fetch"
                \/ ptr # Unset /\ ptr' = ptr + 1]_vars
    /\ [](\A t \in Ticks :
             /\ Ended(t) /\ snap[t].ptr # Unset
                   => ptr = snap[t].ptr \/ ptr = snap[t].ptr + 1
             /\ rd[t] # NoRound
                   => rd[t].id = cur[t] /\ ptr \in {cur[t], cur[t] + 1})

\* C18 witness: two invocations have applied the seed round and the next one
\* in turn, the pointer standing one past them
SteppedTwice ==
    \E t \in Ticks :
        /\ Ended(t)
        /\ snap[t].ptr = 2
        /\ ptr = 3
        /\ applied[1] = 1 /\ applied[2] = 1

PassesResolved ==
    \A p \in 1..MaxRound :
        (~readOnly /\ ptr = p /\ Resolved(p)) ~> (ptr > p)

\* invocation t is about to apply round e
Applying(t, e) == cur[t] = e /\ pc[t] \in {"fetch", "linear"}

\* C20: with no crash and no failed call, every round from the seed up to
\* the pointer has had its linear metrics applied or is being applied by an
\* invocation still running, however invocations interleave
NoSilentSkip ==
    \A e \in Epochs :
        seed # Unset /\ seed <= e /\ e < ptr
           => applied[e] >= 1 \/ \E t \in Ticks : Applying(t, e)

====
